---- MODULE Spec2Model ----
(***************************************************************************)
(* Dependency-graph engine of cargo-upkeep: the tree builder of            *)
(* src/cli/commands/tree.rs (run, invert_graph, build_inverted_root,       *)
(* build_node) and the path finder of src/core/analyzers/audit.rs          *)
(* (DependencyGraph::build, DependencyGraph::path_to, run_audit), and the  *)
(* crates.io client of src/core/analyzers/crates_io.rs                     *)
(* (CratesIoClient::fetch_latest_versions, fetch_from_api_inner).          *)
(*                                                                         *)
(* The recursion of build_node is unfolded into an explicit call stack:    *)
(* one frame per build_node call that is being expanded, one step per      *)
(* iteration of its child loop.  Option<T> is a sequence of length <= 1.   *)
(***************************************************************************)
EXTENDS Integers, Sequences, FiniteSets, TLC

VARIABLES
    metadata,         \* cargo metadata: packages, resolve nodes, root, members
    args,             \* TreeArgs: depth, duplicates, no_dev, invert
    pc,               \* tree: "start" | "root" | "build" | "done";
                      \* audit: "lookup" | "bfs" | "report" | "audited";
                      \* "crates" while the crates.io client is at work
    graph,            \* ctx.graph: the adjacency in use (forward or inverted)
    duplicate_names,  \* ctx.duplicate_names
    expanded,         \* ctx.expanded
    path,             \* ctx.path
    stack,            \* the build_node calls being expanded, outermost first
    err,              \* an Err travelling up through the `?` operators
    result,           \* what run / build_inverted_root ended with
    query,            \* path_to's arguments: name, version, source
    target_id,        \* path_to: the looked-up target, None before / without one
    queue,            \* path_to: the BFS queue
    visited,          \* path_to: the BFS visited set
    parents,          \* path_to: the BFS predecessor map
    found,            \* path_to: the BFS flag
    path_ids,         \* path_to: the reconstructed path, root first
    lookup,           \* what path_to returned: Option<Vec<String>>
    reported,         \* run_audit: the path of the Vulnerability record
    previous,         \* what an earlier run of the same command ended with
    registry,         \* crates.io: the payload the API has for each crate
    cache,            \* CratesIoClient.cache: HashMap<String, VersionInfo>
    limiter,          \* CratesIoClient.limiter: the permits available
    calls,            \* the fetch_latest_versions calls on the client
    requests          \* per crate: requests sent, and sent after a success

treevars == <<args, graph, duplicate_names, expanded, path, stack, err, result, previous>>
pathvars == <<query, target_id, queue, visited, parents, found, path_ids, lookup, reported>>
cratesvars == <<registry, cache, limiter, calls, requests>>
vars == <<metadata, pc, treevars, pathvars, cratesvars>>

---------------------------------------------------------------------------
(* Bounds of the explored inputs *)

NumPkgs == 4
MaxEdges == 4
MaxDepthArg == 2

NumCalls == 2

(* Program constants *)

MAX_TREE_DEPTH == 200
EmptyId == 0

---------------------------------------------------------------------------
(* Package names and their order (str::cmp) *)

AllNames == <<"a", "b", "c", "d", "e", "f", "g">>
UnknownName == "~"

NameRank(n) ==
    IF \E i \in 1..Len(AllNames) : AllNames[i] = n
    THEN CHOOSE i \in 1..Len(AllNames) : AllNames[i] = n
    ELSE Len(AllNames) + 1

Ids == 1..NumPkgs

Some(x) == <<x>>
NoneVal == <<>>

Range(seq) == {seq[i] : i \in 1..Len(seq)}

---------------------------------------------------------------------------
(* run: the duplicate index and the forward adjacency (tree.rs 55-98) *)

\* a duplicate index that counts packages, not distinct versions
DuplicateNamesByCount(md) ==
    {md.packages[i].name : i \in {j \in DOMAIN md.packages :
        \E k \in DOMAIN md.packages : k # j /\ md.packages[k].name = md.packages[j].name}}

\* lines 55-68: versions_by_name / duplicate_names, over ALL packages of the metadata
DuplicateNames(md) ==
    LET versions_by_name(n) ==
            {md.packages[i].version : i \in {j \in DOMAIN md.packages : md.packages[j].name = n}}
    IN  {md.packages[i].name : i \in {j \in DOMAIN md.packages :
                                        Cardinality(versions_by_name(md.packages[j].name)) > 1}}

\* a filter that drops every edge with a dev tag
NoDevTag(dep) == "dev" \notin dep.dep_kinds

\* includes_non_dev, lines 163-168: some kind tag is Normal, Build or Unknown
includes_non_dev(dep) ==
    \E kind \in dep.dep_kinds : kind \in {"normal", "build", "unknown"}

\* an Edge with its two flags in each other's place
MakeEdgeSwapped(dep) ==
    [id       |-> dep.pkg,
     is_dev   |-> \E kind \in dep.dep_kinds : kind = "build",
     is_build |-> \E kind \in dep.dep_kinds : kind = "dev"]

\* run, lines 80-96: the Edge of a dependency
MakeEdge(dep) ==
    [id       |-> dep.pkg,
     is_dev   |-> \E kind \in dep.dep_kinds : kind = "dev",
     is_build |-> \E kind \in dep.dep_kinds : kind = "build"]

KeptDeps(md, no_dev, n) ==
    SelectSeq(md.nodes[n], LAMBDA dep : ~(no_dev /\ ~includes_non_dev(dep)))

\* forward_graph: a key exists only for a node that pushed at least one edge
ForwardGraph(md, no_dev) ==
    LET keys == {n \in DOMAIN md.nodes : KeptDeps(md, no_dev, n) # <<>>}
    IN  [n \in keys |-> [i \in 1..Len(KeptDeps(md, no_dev, n)) |->
                            MakeEdge(KeptDeps(md, no_dev, n)[i])]]

\* a lookup that hands out the first edge of a package and no other
GraphGetFirstOnly(g, id) ==
    IF id \in DOMAIN g /\ g[id] # <<>> THEN <<g[id][1]>> ELSE <<>>

GraphGet(g, id) == IF id \in DOMAIN g THEN g[id] ELSE <<>>

\* The iteration orders a HashMap with key set S can present
IterOrders(S) ==
    {o \in [1..Cardinality(S) -> S] : \A i, j \in 1..Cardinality(S) : i # j => o[i] # o[j]}

\* an inversion that drops the annotation of the edges
RECURSIVE InvertedEdgesUnmarked(_, _, _)
InvertedEdgesUnmarked(g, order, to) ==
    IF order = <<>> THEN <<>>
    ELSE LET from == Head(order)
             hits == SelectSeq(g[from], LAMBDA child : child.id = to)
         IN  [i \in 1..Len(hits) |-> [id |-> from, is_dev |-> FALSE, is_build |-> FALSE]]
             \o InvertedEdgesUnmarked(g, Tail(order), to)

\* invert_graph, the outer loop visiting the keys of `g` in the order `order`
RECURSIVE InvertedEdges(_, _, _)
InvertedEdges(g, order, to) ==
    IF order = <<>> THEN <<>>
    ELSE LET from == Head(order)
             hits == SelectSeq(g[from], LAMBDA child : child.id = to)
         IN  [i \in 1..Len(hits) |->
                 [id |-> from, is_dev |-> hits[i].is_dev, is_build |-> hits[i].is_build]]
             \o InvertedEdges(g, Tail(order), to)

\* an inversion that hands back the adjacency it was given
NotInverted(g, order) == g

\* invert_graph, lines 170-182
invert_graph(g, order) ==
    LET targets == UNION {{g[from][i].id : i \in 1..Len(g[from])} : from \in DOMAIN g}
    IN  [to \in targets |-> InvertedEdges(g, order, to)]

---------------------------------------------------------------------------
(* TreeNode *)

TreeNodeEmpty(name) ==
    [name |-> name, version |-> "", package_id |-> EmptyId, dependencies |-> <<>>,
     is_dev |-> FALSE, is_build |-> FALSE, duplicate |-> FALSE]

\* a synthetic root that was given an id of its own
VirtualRootWithId == [TreeNodeEmpty("(workspace)") EXCEPT !.package_id = NumPkgs + 1]

\* TreeNode::virtual_root, lines 462-473
VirtualRoot == TreeNodeEmpty("(workspace)")

\* a labeled root without its label
ReverseRootPlain(name) == TreeNodeEmpty(name)

\* build_inverted_root, line 208
ReverseRoot(name) == TreeNodeEmpty("reverse:" \o name)

\* a child loop that pushes every child it gets twice
PushChildTwice(node, value) ==
    IF value = NoneVal THEN node
    ELSE [node EXCEPT !.dependencies = Append(Append(@, value[1]), value[1])]

\* lines 303-305 and 128-130: dependencies.push(child) for Some(child)
PushChild(node, value) ==
    IF value = NoneVal THEN node
    ELSE [node EXCEPT !.dependencies = Append(@, value[1])]

---------------------------------------------------------------------------
(* build_node (tree.rs 218-322) *)

ChildName(id) ==
    IF id \in DOMAIN metadata.packages THEN metadata.packages[id].name ELSE UnknownName

ChildNameOrUnknown(id) ==
    IF id \in DOMAIN metadata.packages THEN metadata.packages[id].name ELSE "<unknown>"

\* lines 286-298, children.sort_by(name): a stable sort
InsertByName(sorted, e) ==
    LET k == Cardinality({i \in 1..Len(sorted) :
                            NameRank(ChildName(sorted[i].id)) <= NameRank(ChildName(e.id))})
    IN  SubSeq(sorted, 1, k) \o <<e>> \o SubSeq(sorted, k + 1, Len(sorted))

\* a child loop over the edges as the adjacency lists them
Unsorted(children) == children

\* lines 285-298: the children, sorted by name
RECURSIVE SortByName(_)
SortByName(children) ==
    IF children = <<>> THEN <<>>
    ELSE InsertByName(SortByName(SubSeq(children, 1, Len(children) - 1)),
                      children[Len(children)])

\* a lookup that makes up a package for an id the metadata lacks
PlaceholderForMissing(id) ==
    IF id \in DOMAIN metadata.packages THEN Some(metadata.packages[id])
    ELSE Some([name |-> "<unknown>", version |-> "", source |-> NoneVal])

\* line 241: ctx.packages_by_id.get(id)
packages_by_id_get(id) ==
    IF id \in DOMAIN metadata.packages THEN Some(metadata.packages[id]) ELSE NoneVal

\* a build_node without the check of line 226
OverCeilingNever(depth) == FALSE

\* line 226: depth > MAX_TREE_DEPTH
OverCeiling(depth) == depth > MAX_TREE_DEPTH

\* a depth test that lets the nodes at the limit expand
DepthLimitedAbove(depth) == args.depth # NoneVal /\ depth > args.depth[1]

\* line 264: ctx.args.depth.map(|limit| depth >= limit).unwrap_or(false)
DepthLimited(depth) == args.depth # NoneVal /\ depth >= args.depth[1]

\* a build_node that forgot the check of line 272
AlreadyExpandedNever(id) == FALSE

\* line 272: !ctx.expanded.insert(id)
AlreadyExpanded(id) == id \in expanded

\* a build_node that forgot the check of line 301
OnPathNever(id) == FALSE

\* line 301: ctx.path.contains(&child.id)
OnPath(id) == id \in path

\* a pruning test that forgot `!duplicate`
PrunedAlsoDuplicates(duplicate, depth) == args.duplicates /\ depth > 0

\* the test `ctx.args.duplicates && !duplicate && depth > 0` of lines 265, 273, 317
Pruned(duplicate, depth) == args.duplicates /\ ~duplicate /\ depth > 0

\* Lines 225-298: the part of a call that runs before its child loop.
\*   "err"    : the call returns Err
\*   "ret"    : the call returns Ok(value) without expanding
\*   "expand" : the call enters its child loop with `frame`
BuildNodeEntry(id, depth, is_dev, is_build) ==
    IF OverCeiling(depth) THEN
        [tag |-> "err", error |-> [kind |-> "max_depth", package |-> ChildNameOrUnknown(id), id |-> id]]
    ELSE IF packages_by_id_get(id) = NoneVal THEN
        [tag |-> "err", error |-> [kind |-> "missing", package |-> "<unknown>", id |-> id]]
    ELSE
        LET package   == packages_by_id_get(id)[1]
            duplicate == package.name \in duplicate_names
            node      == [name |-> package.name, version |-> package.version,
                          package_id |-> id, dependencies |-> <<>>,
                          is_dev |-> is_dev, is_build |-> is_build,
                          duplicate |-> duplicate]
            leaf      == IF Pruned(duplicate, depth) THEN NoneVal ELSE Some(node)
        IN  IF DepthLimited(depth) THEN [tag |-> "ret", value |-> leaf]
            ELSE IF AlreadyExpanded(id) THEN [tag |-> "ret", value |-> leaf]
            ELSE [tag |-> "expand",
                  frame |-> [kind |-> "node", id |-> id, depth |-> depth, node |-> node,
                             children |-> SortByName(GraphGet(graph, id))]]

\* a build_node without the pruning of line 317
BuildNodeValueKeepAll(frame) == Some(frame.node)

\* lines 317-321: what an expanded call returns after its child loop
BuildNodeValue(frame) ==
    IF Pruned(frame.node.duplicate, frame.depth) /\ frame.node.dependencies = <<>>
    THEN NoneVal
    ELSE Some(frame.node)

---------------------------------------------------------------------------
(* How run and build_inverted_root end *)

\* a collect_ids that looks at the node it is given and no further
CollectIdsShallow(node) ==
    IF node.package_id # EmptyId THEN {node.package_id} ELSE {}

\* collect_ids, lines 348-355: the non-empty package ids of the tree
RECURSIVE collect_ids(_)
collect_ids(node) ==
    (IF node.package_id # EmptyId THEN {node.package_id} ELSE {})
        \cup UNION {collect_ids(node.dependencies[i]) : i \in 1..Len(node.dependencies)}

\* collect_versions, lines 357-367: the (name, version) pairs of the nodes
\* with a version
RECURSIVE collect_versions(_)
collect_versions(node) ==
    (IF node.version # "" THEN {<<node.name, node.version>>} ELSE {})
        \cup UNION {collect_versions(node.dependencies[i]) : i \in 1..Len(node.dependencies)}

\* usize::saturating_sub
SaturatingSub(a, b) == IF a >= b THEN a - b ELSE 0

\* build_stats, lines 324-346
build_stats(root) ==
    LET ids              == collect_ids(root)
        versions         == collect_versions(root)
        duplicate_crates == Cardinality({n \in {v[1] : v \in versions} :
                                Cardinality({v \in versions : v[1] = n}) > 1})
        root_is_real     == root.package_id # EmptyId
        direct_deps      == Len(root.dependencies)
        total_crates     == Cardinality(ids)
    IN  [total_crates     |-> total_crates,
         direct_deps      |-> direct_deps,
         transitive_deps  |-> SaturatingSub(total_crates,
                                            direct_deps + (IF root_is_real THEN 1 ELSE 0)),
         duplicate_crates |-> duplicate_crates]

NoResult == [kind |-> "none"]

\* run, lines 144-145: TreeOutput { root, stats }
Ok(root) == [kind |-> "ok", root |-> root, stats |-> build_stats(root)]
Err(error) == [kind |-> "err", error |-> error]

\* The caller of the outermost build_node of a single root:
\*   run, line 122-123:              unwrap_or_else(|| TreeNode::empty("root"))
\*   build_inverted_root, 200-205:   ok_or_else("no dependencies to display")
RootResult(value) ==
    IF args.invert # NoneVal
    THEN IF value = NoneVal
         THEN Err([kind |-> "nothing_to_display", package |-> args.invert[1], id |-> EmptyId])
         ELSE Ok(value[1])
    ELSE IF value = NoneVal THEN Ok(TreeNodeEmpty("root")) ELSE Ok(value[1])

Finish(res) ==
    /\ result' = res
    /\ stack' = <<>>
    /\ err' = NoneVal

\* An Err leaves the call that was made from the top of `stk`
Fail(stk, error) ==
    IF stk = <<>>
    THEN Finish(Err(error))
    ELSE /\ stack' = stk
         /\ err' = Some(error)
         /\ UNCHANGED result

\* Ok(value) is handed to the caller, the top of `stk`
Deliver(stk, value) ==
    IF stk = <<>>
    THEN Finish(RootResult(value))
    ELSE /\ stack' = [stk EXCEPT ![Len(stk)].node = PushChild(@, value)]
         /\ UNCHANGED <<result, err>>

\* build_node(id, depth, is_dev, is_build) is called from the top of `stk`
Call(stk, id, depth, is_dev, is_build) ==
    LET out == BuildNodeEntry(id, depth, is_dev, is_build)
    IN  CASE out.tag = "err" ->
               /\ Fail(stk, out.error)
               /\ UNCHANGED <<expanded, path>>
          [] out.tag = "ret" ->
               /\ Deliver(stk, out.value)
               /\ UNCHANGED <<expanded, path>>
          [] out.tag = "expand" ->
               /\ expanded' = expanded \cup {id}
               /\ path' = path \cup {id}
               /\ stack' = Append(stk, out.frame)
               /\ UNCHANGED <<result, err>>

\* the build is over as soon as run / build_inverted_root has its Result
NextPc == IF result'.kind = "none" THEN "build" ELSE "done"

Top == stack[Len(stack)]

\* a return that leaves the id of the call on the path
PathKept(id) == path

\* line 314: ctx.path.remove(id)
PathWithout(id) == path \ {id}

Below == SubSeq(stack, 1, Len(stack) - 1)
\* a child loop that never leaves its first child
NotAdvanced == stack

\* line 300, `for child in children`: the loop is past its first child
Advanced == [stack EXCEPT ![Len(stack)].children = Tail(@)]

---------------------------------------------------------------------------
(* Actions *)

\* run, lines 55-115: the lookup, the duplicate index and the adjacency in use
Load ==
    /\ pc = "start"
    /\ duplicate_names' = DuplicateNames(metadata)
    /\ LET forward_graph == ForwardGraph(metadata, args.no_dev)
       IN  IF args.invert # NoneVal
           THEN \E order \in IterOrders(DOMAIN forward_graph) :
                    graph' = invert_graph(forward_graph, order)
           ELSE graph' = forward_graph
    /\ pc' = "root"
    /\ UNCHANGED <<metadata, args, expanded, path, stack, err, result>>
    /\ UNCHANGED <<pathvars, previous, cratesvars>>

\* a build_inverted_root without the check of line 192
NoMatchNever(matches) == FALSE

\* build_inverted_root, line 192: matches.is_empty()
NoMatch(matches) == matches = {}

RootEdge(id) == [id |-> id, is_dev |-> FALSE, is_build |-> FALSE]

\* run, lines 117-142, and build_inverted_root, lines 184-208: root selection
SelectRoot ==
    /\ pc = "root"
    /\ IF args.invert # NoneVal
       THEN LET name == args.invert[1]
                matches == {id \in DOMAIN metadata.packages :
                              metadata.packages[id].name = name}
            IN  IF NoMatch(matches)
                THEN /\ Finish(Err([kind |-> "no_such_package", package |-> name,
                                    id |-> EmptyId]))
                     /\ UNCHANGED <<expanded, path>>
                ELSE IF Cardinality(matches) = 1
                THEN Call(<<>>, CHOOSE id \in matches : TRUE, 0, FALSE, FALSE)
                ELSE \E order \in IterOrders(matches) :
                        /\ stack' = <<[kind |-> "reverse", id |-> EmptyId, depth |-> 0,
                                       node |-> ReverseRoot(name),
                                       children |-> [i \in 1..Len(order) |-> RootEdge(order[i])]]>>
                        /\ UNCHANGED <<expanded, path, err, result>>
       ELSE IF metadata.root_package # NoneVal
       THEN Call(<<>>, metadata.root_package[1], 0, FALSE, FALSE)
       ELSE /\ stack' = <<[kind |-> "virtual", id |-> EmptyId, depth |-> 0,
                           node |-> VirtualRoot,
                           children |-> [i \in 1..Len(metadata.workspace_members) |->
                                           RootEdge(metadata.workspace_members[i])]]>>
            /\ UNCHANGED <<expanded, path, err, result>>
    /\ pc' = NextPc
    /\ UNCHANGED <<metadata, args, graph, duplicate_names>>
    /\ UNCHANGED <<pathvars, previous, cratesvars>>

\* build_node, lines 300-309: one iteration of the child loop
BuildNodeChild ==
    /\ pc = "build" /\ err = NoneVal
    /\ stack # <<>> /\ Top.kind = "node" /\ Top.children # <<>>
    /\ LET child == Head(Top.children)
       IN  IF OnPath(child.id)
           THEN /\ stack' = Advanced
                /\ UNCHANGED <<expanded, path, err, result>>
           ELSE Call(Advanced, child.id, Top.depth + 1, child.is_dev, child.is_build)
    /\ pc' = NextPc
    /\ UNCHANGED <<metadata, args, graph, duplicate_names>>
    /\ UNCHANGED <<pathvars, previous, cratesvars>>

\* build_node, lines 313-321: the child loop is over
BuildNodeReturn ==
    /\ pc = "build" /\ err = NoneVal
    /\ stack # <<>> /\ Top.kind = "node" /\ Top.children = <<>>
    /\ path' = PathWithout(Top.id)
    /\ Deliver(Below, BuildNodeValue(Top))
    /\ pc' = NextPc
    /\ UNCHANGED <<metadata, args, graph, duplicate_names, expanded>>
    /\ UNCHANGED <<pathvars, previous, cratesvars>>

\* run, lines 127-131, and build_inverted_root, lines 209-213: one child of a
\* synthetic root, built at depth 1
RootChild ==
    /\ pc = "build" /\ err = NoneVal
    /\ stack # <<>> /\ Top.kind \in {"virtual", "reverse"} /\ Top.children # <<>>
    /\ Call(Advanced, Head(Top.children).id, 1, FALSE, FALSE)
    /\ pc' = NextPc
    /\ UNCHANGED <<metadata, args, graph, duplicate_names>>
    /\ UNCHANGED <<pathvars, previous, cratesvars>>

\* run, lines 132-138, and build_inverted_root, line 215
RootReturn ==
    /\ pc = "build" /\ err = NoneVal
    /\ stack # <<>> /\ Top.kind \in {"virtual", "reverse"} /\ Top.children = <<>>
    /\ IF Top.kind = "virtual" /\ Top.node.dependencies = <<>>
       THEN Finish(Err([kind |-> "no_packages_in_workspace", package |-> "",
                        id |-> EmptyId]))
       ELSE Finish(Ok(Top.node))
    /\ pc' = NextPc
    /\ UNCHANGED <<metadata, args, graph, duplicate_names, expanded, path>>
    /\ UNCHANGED <<pathvars, previous, cratesvars>>

\* An Err passes one caller: build_node removes its id from the path (line 314)
\* and returns the Err (line 315); a root loop returns it at once (`?`)
Unwind ==
    /\ pc = "build" /\ err # NoneVal
    /\ stack # <<>>
    /\ path' = IF Top.kind = "node" THEN PathWithout(Top.id) ELSE path
    /\ Fail(Below, err[1])
    /\ pc' = NextPc
    /\ UNCHANGED <<metadata, args, graph, duplicate_names, expanded>>
    /\ UNCHANGED <<pathvars, previous, cratesvars>>

Next ==
    \/ Load
    \/ SelectRoot
    \/ BuildNodeChild
    \/ BuildNodeReturn
    \/ RootChild
    \/ RootReturn
    \/ Unwind

---------------------------------------------------------------------------
(* The inputs explored *)

\* Packages 1..NumPkgs, named in id order.  The schemes:
\*   "plain"   every package has its own name
\*   "dup"     packages 2 and 3 are two versions of one name
\*   "twin"    packages 2 and 3 have one name and one version, from two sources
\*             (a registry and a git repository)
\*   "missing" the last id has no package and no resolve node, though edges
\*             may point at it
Schemes == {"plain", "dup", "twin", "missing"}

Present(scheme) == IF scheme = "missing" THEN Ids \ {NumPkgs} ELSE Ids

PkgTable(scheme) ==
    [i \in Present(scheme) |->
        [name    |-> AllNames[IF scheme \in {"dup", "twin", "mixed"} /\ i > 2 THEN i - 1 ELSE i],
         version |-> IF scheme = "dup" /\ i = 3 THEN "0.2.0" ELSE "0.1.0",
         source  |-> IF scheme = "twin" /\ i \in {2, 3}
                     THEN Some(IF i = 2 THEN "registry" ELSE "git")
                     ELSE IF scheme = "mixed" /\ i = 3 THEN Some("registry")
                     ELSE NoneVal]]

\* Edges i -> j of the explored graphs: to the next two packages, to the package
\* itself and back to the previous one
EdgeUniverse == {e \in Ids \X Ids : e[2] - e[1] \in {-1, 0, 1, 2}}

\* The kind tags of the dependency i -> j
KindsOf(e) ==
    CASE e[2] - e[1] = 1 -> {"normal"}
      [] e[2] - e[1] = 2 -> {"dev"}
      [] e[2] - e[1] = 0 -> {"normal", "dev"}
      [] OTHER           -> {"build"}

RECURSIVE SubsetsUpTo(_, _)
SubsetsUpTo(S, k) ==
    IF k = 0 THEN {{}}
    ELSE LET smaller == SubsetsUpTo(S, k - 1)
         IN  smaller \cup {T \cup {x} : T \in smaller, x \in S}

EdgeSets == SubsetsUpTo(EdgeUniverse, MaxEdges)

\* the deps of node n, listed by descending id (against the name order)
RECURSIVE DepsDescending(_, _, _)
DepsDescending(E, n, j) ==
    IF j = 0 THEN <<>>
    ELSE (IF <<n, j>> \in E THEN <<[pkg |-> j, dep_kinds |-> KindsOf(<<n, j>>)]>> ELSE <<>>)
         \o DepsDescending(E, n, j - 1)

MkMetadata(scheme, E, start) ==
    [packages          |-> PkgTable(scheme),
     nodes             |-> [n \in Present(scheme) |-> DepsDescending(E, n, NumPkgs)],
     root_package      |-> start.root_package,
     workspace_members |-> start.workspace_members]

\* Where a build starts: a real root, a virtual workspace, or an invert target
\* (the name of package 2, of the last package, or of no package)
Forward(root, members) ==
    [root_package |-> root, workspace_members |-> members, invert |-> NoneVal]

Inverted(name) ==
    [root_package |-> Some(1), workspace_members |-> <<1>>, invert |-> Some(name)]

StartChoices(scheme) ==
    CASE scheme = "twin"    -> {Inverted(PkgTable(scheme)[2].name)}
      [] scheme = "missing" -> {Forward(Some(1), <<1>>), Forward(NoneVal, <<1, 2>>)}
      [] OTHER ->
            {Forward(Some(1), <<1>>), Forward(NoneVal, <<>>), Forward(NoneVal, <<1, 2>>)}
              \cup {Inverted(n) :
                      n \in {PkgTable(scheme)[2].name, PkgTable(scheme)[NumPkgs].name, "zz"}}

StartIds(scheme, start) ==
    IF start.invert # NoneVal
    THEN {i \in Present(scheme) : PkgTable(scheme)[i].name = start.invert[1]}
    ELSE IF start.root_package # NoneVal THEN {start.root_package[1]}
    ELSE {start.workspace_members[i] : i \in 1..Len(start.workspace_members)}

RECURSIVE Reach(_, _)
Reach(S, A) ==
    LET N == S \cup {e[2] : e \in {x \in A : x[1] \in S}}
    IN  IF N = S THEN S ELSE Reach(N, A)

\* Every edge of the input leaves a resolve node that the traversal reaches
\* (an edge elsewhere changes no step of the build); a build with nowhere to
\* start from is explored on the graph without edges and on the graph 1 -> 2
Relevant(E, scheme, start, no_dev) ==
    LET kept == {e \in E : ~(no_dev /\ KindsOf(e) \subseteq {"dev"})}
        used == IF start.invert # NoneVal THEN {<<e[2], e[1]>> : e \in kept} ELSE kept
        seen == Reach(StartIds(scheme, start), used)
    IN  IF StartIds(scheme, start) = {}
        THEN E \subseteq {<<1, 2>>}
        ELSE \A e \in E : /\ e[1] \in Present(scheme)
                          /\ (IF start.invert # NoneVal THEN e[2] ELSE e[1]) \in seen

DepthChoices == {NoneVal} \cup {Some(k) : k \in 0..MaxDepthArg}

\* Every depth limit with either pruning mode; --no-dev without a depth limit
ArgChoices(start) ==
    {[depth |-> d, duplicates |-> u, no_dev |-> FALSE, invert |-> start.invert] :
        d \in DepthChoices, u \in BOOLEAN}
      \cup {[depth |-> NoneVal, duplicates |-> u, no_dev |-> TRUE, invert |-> start.invert] :
        u \in BOOLEAN}

\* no audit is running
\* no crates.io client
CratesIdle ==
    /\ registry = <<>> /\ cache = <<>> /\ limiter = 0 /\ calls = <<>> /\ requests = <<>>

PathIdle ==
    /\ query = NoneVal /\ target_id = NoneVal /\ queue = <<>> /\ visited = {}
    /\ parents = <<>> /\ found = FALSE /\ path_ids = <<>> /\ lookup = NoneVal
    /\ reported = <<>>

Init ==
    /\ \E scheme \in Schemes, E \in EdgeSets :
         \E start \in StartChoices(scheme) :
            \E a \in ArgChoices(start) :
                /\ Relevant(E, scheme, start, a.no_dev)
                /\ metadata = MkMetadata(scheme, E, start)
                /\ args = a
    /\ pc = "start"
    /\ graph = <<>>
    /\ duplicate_names = {}
    /\ expanded = {}
    /\ path = {}
    /\ stack = <<>>
    /\ err = NoneVal
    /\ result = NoResult
    /\ PathIdle
    /\ previous = NoneVal
    /\ CratesIdle

Spec == Init /\ [][Next]_vars

\* run and build_node have no suspension point: a build that can step, steps
---------------------------------------------------------------------------
(* Builds over dependency chains about as long as the ceiling *)

\* the longest chain: its last package is one edge beyond the ceiling when the
\* first one is a real root
ChainLen == MAX_TREE_DEPTH + 2

ChainPackages(n) ==
    [i \in 1..n |-> [name |-> "p" \o ToString(i), version |-> "0.1.0", source |-> NoneVal]]

\* package i depends on package i + 1; in a closed chain the last package
\* depends on the first
ChainNodes(n, closed) ==
    [i \in 1..n |->
        IF i < n THEN <<[pkg |-> i + 1, dep_kinds |-> {"normal"}]>>
        ELSE IF closed THEN <<[pkg |-> 1, dep_kinds |-> {"normal"}]>>
        ELSE <<>>]

\* no depth limit, a small one, and one beyond the ceiling
ChainDepths == {NoneVal, Some(MaxDepthArg), Some(MAX_TREE_DEPTH + MaxDepthArg)}

ChainInit ==
    /\ \E n \in (ChainLen - 2)..ChainLen, closed \in BOOLEAN,
          start \in {Forward(Some(1), <<1>>), Forward(NoneVal, <<1>>)},
          d \in ChainDepths, u \in BOOLEAN :
          \* a tree some two hundred levels deep is more than the evaluation
          \* of build_stats can walk: the deep builds prune (no name of a
          \* chain is duplicated), which leaves the traversal as it is
          /\ u \/ d = Some(MaxDepthArg)
          /\ metadata = [packages          |-> ChainPackages(n),
                         nodes             |-> ChainNodes(n, closed),
                         root_package      |-> start.root_package,
                         workspace_members |-> start.workspace_members]
          /\ args = [depth |-> d, duplicates |-> u, no_dev |-> FALSE, invert |-> NoneVal]
    /\ pc = "start"
    /\ graph = <<>> /\ duplicate_names = {} /\ expanded = {} /\ path = {}
    /\ stack = <<>> /\ err = NoneVal /\ result = NoResult
    /\ PathIdle
    /\ previous = NoneVal
    /\ CratesIdle

ChainNext ==
    \/ Load
    \/ SelectRoot
    \/ BuildNodeChild
    \/ BuildNodeReturn
    \/ RootChild
    \/ RootReturn
    \/ Unwind

ChainSpec == ChainInit /\ [][ChainNext]_vars

---------------------------------------------------------------------------
(* The same command, run twice on the same metadata *)

\* run, lines 24-115, entered again: the first run's outcome is kept aside and
\* the second starts from the same metadata and options with a fresh context
RunAgain ==
    /\ pc = "done" /\ previous = NoneVal
    /\ previous' = Some(result)
    /\ pc' = "start"
    /\ graph' = <<>> /\ duplicate_names' = {} /\ expanded' = {} /\ path' = {}
    /\ stack' = <<>> /\ err' = NoneVal /\ result' = NoResult
    /\ UNCHANGED <<metadata, args, pathvars, cratesvars>>

\* every explored graph whose packages are all in the metadata, from every
\* start, with default options
DetInit ==
    /\ \E scheme \in {"plain", "dup", "twin"}, E \in EdgeSets :
         \E start \in StartChoices(scheme) :
            /\ Relevant(E, scheme, start, FALSE)
            /\ metadata = MkMetadata(scheme, E, start)
            /\ args = [depth |-> NoneVal, duplicates |-> FALSE, no_dev |-> FALSE,
                       invert |-> start.invert]
    /\ pc = "start"
    /\ graph = <<>> /\ duplicate_names = {} /\ expanded = {} /\ path = {}
    /\ stack = <<>> /\ err = NoneVal /\ result = NoResult
    /\ PathIdle
    /\ previous = NoneVal
    /\ CratesIdle

DetNext ==
    \/ Load
    \/ SelectRoot
    \/ BuildNodeChild
    \/ BuildNodeReturn
    \/ RootChild
    \/ RootReturn
    \/ RunAgain

DetSpec == DetInit /\ [][DetNext]_vars

---------------------------------------------------------------------------
(* Builds over edges with every combination of kind tags *)

\* the dependencies explored, each one absent (no tag) or with any tags
KindEdges == {<<1, 2>>, <<1, 3>>, <<2, 3>>}
KindTags == {"normal", "dev", "build", "unknown"}

RECURSIVE TaggedDeps(_, _, _)
TaggedDeps(K, n, j) ==
    IF j = 0 THEN <<>>
    ELSE (IF <<n, j>> \in KindEdges /\ K[<<n, j>>] # {}
          THEN <<[pkg |-> j, dep_kinds |-> K[<<n, j>>]]>> ELSE <<>>)
         \o TaggedDeps(K, n, j - 1)

KindInit ==
    /\ \E K \in [KindEdges -> SUBSET KindTags], no_dev \in BOOLEAN,
          target \in {NoneVal, Some(PkgTable("plain")[3].name)} :
          /\ metadata = [packages          |-> PkgTable("plain"),
                         nodes             |-> [n \in Ids |-> TaggedDeps(K, n, NumPkgs)],
                         root_package      |-> Some(1),
                         workspace_members |-> <<1>>]
          /\ args = [depth |-> NoneVal, duplicates |-> FALSE, no_dev |-> no_dev,
                     invert |-> target]
    /\ pc = "start"
    /\ graph = <<>> /\ duplicate_names = {} /\ expanded = {} /\ path = {}
    /\ stack = <<>> /\ err = NoneVal /\ result = NoResult
    /\ PathIdle
    /\ previous = NoneVal
    /\ CratesIdle

KindNext == Load \/ SelectRoot \/ BuildNodeChild \/ BuildNodeReturn

KindSpec == KindInit /\ [][KindNext]_vars

---------------------------------------------------------------------------
(* invert_graph applied to its own result *)

\* invert_graph, lines 170-182, on the adjacency at hand
Invert ==
    /\ pc \in {"invert:0", "invert:1"}
    /\ \E order \in IterOrders(DOMAIN graph) : graph' = invert_graph(graph, order)
    /\ pc' = IF pc = "invert:0" THEN "invert:1" ELSE "invert:2"
    /\ UNCHANGED <<metadata, args, duplicate_names, expanded, path, stack, err, result>>
    /\ UNCHANGED <<pathvars, previous, cratesvars>>

\* the forward adjacency of every explored graph, with and without --no-dev
InvertInit ==
    /\ \E E \in EdgeSets, no_dev \in BOOLEAN :
          /\ metadata = MkMetadata("plain", E, Forward(Some(1), <<1>>))
          /\ args = [depth |-> NoneVal, duplicates |-> FALSE, no_dev |-> no_dev,
                     invert |-> NoneVal]
    /\ graph = ForwardGraph(metadata, args.no_dev)
    /\ pc = "invert:0"
    /\ duplicate_names = {} /\ expanded = {} /\ path = {}
    /\ stack = <<>> /\ err = NoneVal /\ result = NoResult
    /\ PathIdle
    /\ previous = NoneVal
    /\ CratesIdle

InvertNext == Invert

InvertSpec == InvertInit /\ [][InvertNext]_vars

---------------------------------------------------------------------------
(* The path finder of the audit: DependencyGraph and path_to *)

\* DependencyGraph::build, lines 125-135: the index of packages by
\* (name, version, source); a later package replaces an earlier one at a key
ByNameVersion(md, name, version, source) ==
    LET ids == {i \in DOMAIN md.packages :
                  /\ md.packages[i].name = name
                  /\ md.packages[i].version = version
                  /\ md.packages[i].source = source}
    IN  IF ids = {} THEN NoneVal
        ELSE Some(CHOOSE i \in ids : \A j \in ids : j <= i)

\* DependencyGraph::build, lines 131-135: every dep of every resolve node
Adjacency(md) ==
    [n \in DOMAIN md.nodes |-> [i \in 1..Len(md.nodes[n]) |-> md.nodes[n][i].pkg]]

\* DependencyGraph::build, lines 137-141
Roots(md) ==
    IF md.root_package # NoneVal THEN <<md.root_package[1]>> ELSE md.workspace_members

\* path_to, lines 170-171: the packages the any-source scan can stop at
AnySource(md, name, version) ==
    {i \in DOMAIN md.packages :
        md.packages[i].name = name /\ md.packages[i].version = version}

\* a queue that hands out the newest node first
PushFront(q, dep) == <<dep>> \o q

\* line 194: queue.push_back(dep)
PushBack(q, dep) == Append(q, dep)

\* a loop over the deps of `node` from the last one to the first
RECURSIVE VisitDepsBackwards(_, _, _)
VisitDepsBackwards(deps, node, bfs) ==
    IF deps = <<>> THEN bfs
    ELSE LET dep == deps[Len(deps)]
         IN  VisitDepsBackwards(SubSeq(deps, 1, Len(deps) - 1), node,
                IF dep \in bfs.visited THEN bfs
                ELSE [visited |-> bfs.visited \cup {dep},
                      parents |-> bfs.parents @@ (dep :> node),
                      queue   |-> PushBack(bfs.queue, dep)])

\* lines 191-196: the deps of `node`, in order, each one inserted once
RECURSIVE VisitDeps(_, _, _)
VisitDeps(deps, node, bfs) ==
    IF deps = <<>> THEN bfs
    ELSE LET dep == Head(deps)
         IN  VisitDeps(Tail(deps), node,
                IF dep \in bfs.visited THEN bfs
                ELSE [visited |-> bfs.visited \cup {dep},
                      parents |-> bfs.parents @@ (dep :> node),
                      queue   |-> PushBack(bfs.queue, dep)])

\* lines 206-213: from the target back over the predecessor map, then reversed
RECURSIVE PathBack(_, _)
PathBack(current, par) ==
    IF current \in DOMAIN par THEN Append(PathBack(par[current], par), current)
    ELSE <<current>>

\* lines 217-222: the name of the package, or the id itself without one
PathName(md, id) ==
    IF id \in DOMAIN md.packages THEN md.packages[id].name ELSE "<id>"

PathNames(md, ids) == [i \in 1..Len(ids) |-> PathName(md, ids[i])]

\* run_audit, lines 45-56: .unwrap_or_else(|| vec![package_name.clone()])
Reported(name, found_path) == IF found_path = NoneVal THEN <<name>> ELSE found_path[1]

\* a lookup that goes straight to the scan of the whole index
TargetIdsScanOnly(md, q) == AnySource(md, q.name, q.version)

\* path_to, lines 156-172: the ids the three lookups can give; the scan of
\* lines 168-172 stops at the first entry the HashMap presents
TargetIds(md, q) ==
    LET exact   == ByNameVersion(md, q.name, q.version, q.source)
        no_src  == ByNameVersion(md, q.name, q.version, NoneVal)
        any_src == AnySource(md, q.name, q.version)
    IN  IF exact # NoneVal THEN {exact[1]}
        ELSE IF no_src # NoneVal THEN {no_src[1]}
        ELSE any_src

\* path_to, lines 150-183: the three lookups, then the roots enter the queue
PathLookup ==
    /\ pc = "lookup"
    /\ LET q       == query[1]
           roots   == Roots(metadata)
           Start(id) ==
               /\ target_id' = Some(id)
               /\ queue' = roots
               /\ visited' = Range(roots)
               /\ pc' = "bfs"
               /\ UNCHANGED lookup
       IN  IF TargetIds(metadata, q) # {}
           THEN \E id \in TargetIds(metadata, q) : Start(id)
           ELSE /\ lookup' = NoneVal
                /\ pc' = "report"
                /\ UNCHANGED <<target_id, queue, visited>>
    /\ UNCHANGED <<metadata, treevars, cratesvars, query, parents, found, path_ids, reported>>

\* path_to, lines 186-199: one iteration of `while let Some(node) = pop_front()`
PathVisit ==
    /\ pc = "bfs" /\ ~found /\ queue # <<>>
    /\ LET node == Head(queue)
           adj  == Adjacency(metadata)
       IN  IF node = target_id[1]
           THEN /\ found' = TRUE
                /\ queue' = Tail(queue)
                /\ UNCHANGED <<visited, parents>>
           ELSE LET bfs == VisitDeps(IF node \in DOMAIN adj THEN adj[node] ELSE <<>>, node,
                                     [visited |-> visited, parents |-> parents,
                                      queue |-> Tail(queue)])
                IN  /\ visited' = bfs.visited
                    /\ parents' = bfs.parents
                    /\ queue' = bfs.queue
                    /\ UNCHANGED found
    /\ UNCHANGED <<metadata, pc, treevars, cratesvars, query, target_id, path_ids, lookup, reported>>

\* path_to, lines 201-227: None without the target, or the path as names
PathFinish ==
    /\ pc = "bfs" /\ (found \/ queue = <<>>)
    /\ IF ~found
       THEN lookup' = NoneVal /\ UNCHANGED path_ids
       ELSE /\ path_ids' = PathBack(target_id[1], parents)
            /\ lookup' = Some(PathNames(metadata, path_ids'))
    /\ pc' = "report"
    /\ UNCHANGED <<metadata, treevars, cratesvars, query, target_id, queue, visited, parents, found,
                   reported>>

\* run_audit, lines 45-56: the path of the record
Report ==
    /\ pc = "report"
    /\ reported' = Reported(query[1].name, lookup)
    /\ pc' = "audited"
    /\ UNCHANGED <<metadata, treevars, cratesvars, query, target_id, queue, visited, parents, found,
                   path_ids, lookup>>

PathNext == PathLookup \/ PathVisit \/ PathFinish \/ Report

\* The packages asked for: the first root, package 3 and the last package by
\* their own keys; package 3 from a source no package has; package 3 at a
\* version no package has; a name no package has
Key(pkg) == [name |-> pkg.name, version |-> pkg.version, source |-> pkg.source]

Queries(scheme) ==
    LET table == PkgTable(scheme)
    IN  {Key(table[i]) : i \in {1, 3, NumPkgs}}
          \cup {[name |-> table[3].name, version |-> table[3].version, source |-> Some("path")],
                [name |-> table[3].name, version |-> "0.9.0", source |-> NoneVal],
                [name |-> "zz", version |-> "0.1.0", source |-> NoneVal]}

\* "mixed": packages 2 and 3 have one name and version, package 2 without a
\* source and package 3 from the registry
PathSchemes == {"plain", "dup", "twin", "mixed"}
PathStarts == {Forward(Some(1), <<1>>), Forward(NoneVal, <<1, 2>>)}

PathInit ==
    /\ \E scheme \in PathSchemes, E \in EdgeSets :
         \E start \in PathStarts, q \in Queries(scheme) :
            /\ Relevant(E, scheme, start, FALSE)
            /\ metadata = MkMetadata(scheme, E, start)
            /\ query = Some(q)
    /\ pc = "lookup"
    /\ args = [depth |-> NoneVal, duplicates |-> FALSE, no_dev |-> FALSE, invert |-> NoneVal]
    /\ graph = <<>> /\ duplicate_names = {} /\ expanded = {} /\ path = {}
    /\ stack = <<>> /\ err = NoneVal /\ result = NoResult
    /\ target_id = NoneVal /\ queue = <<>> /\ visited = {} /\ parents = <<>>
    /\ found = FALSE /\ path_ids = <<>> /\ lookup = NoneVal /\ reported = <<>>
    /\ previous = NoneVal
    /\ CratesIdle

PathSpec == PathInit /\ [][PathNext]_vars

---------------------------------------------------------------------------
(* Reading a returned tree *)

Done == pc = "done"
Built == pc = "done" /\ result.kind = "ok"

IsPackage(node) == node.package_id # EmptyId

\* The nodes of a tree in depth-first order, each with its depth and the ids of
\* its ancestors; a root is at depth 0, so the children of a synthetic root are
\* at depth 1
RECURSIVE Walk(_, _, _)
RECURSIVE WalkAll(_, _, _)
Walk(node, depth, anc) ==
    <<[node |-> node, depth |-> depth, anc |-> anc]>>
        \o WalkAll(node.dependencies, depth + 1, Append(anc, node.package_id))

WalkAll(children, depth, anc) ==
    IF children = <<>> THEN <<>>
    ELSE Walk(Head(children), depth, anc) \o WalkAll(Tail(children), depth, anc)

Items == IF result.kind = "ok" THEN Walk(result.root, 0, <<>>) ELSE <<>>


ChildIds(node) == [i \in 1..Len(node.dependencies) |-> node.dependencies[i].package_id]

TreeIds == {Items[i].node.package_id : i \in 1..Len(Items)} \ {EmptyId}

\* the edges of the adjacency in use, as pairs
GraphPairs == UNION {{<<n, graph[n][i].id>> : i \in 1..Len(graph[n])} : n \in DOMAIN graph}

\* the ids the build starts from
BuildStarts ==
    IF args.invert # NoneVal
    THEN {i \in DOMAIN metadata.packages : metadata.packages[i].name = args.invert[1]}
    ELSE IF metadata.root_package # NoneVal THEN {metadata.root_package[1]}
    ELSE Range(metadata.workspace_members)

---------------------------------------------------------------------------
(* C1 *)

\* The work a build has left: every package not yet expanded may still open a
\* child loop no longer than WorkUnit - 2, and every open loop has its remaining
\* children and its return to go.
RECURSIVE TotalDeps(_, _)
TotalDeps(nodes, S) ==
    IF S = {} THEN 0
    ELSE LET n == CHOOSE x \in S : TRUE
         IN  Len(nodes[n]) + TotalDeps(nodes, S \ {n})

WorkUnit ==
    TotalDeps(metadata.nodes, DOMAIN metadata.nodes)
        + Cardinality(DOMAIN metadata.packages) + Len(metadata.workspace_members) + 2

RECURSIVE OpenWork(_)
OpenWork(stk) ==
    IF stk = <<>> THEN 0
    ELSE Len(Head(stk).children) + 1 + OpenWork(Tail(stk))

WorkLeft ==
    (CASE pc = "start" -> 2 * WorkUnit
       [] pc = "root"  -> WorkUnit
       [] OTHER        -> 0)
    + WorkUnit * Cardinality(DOMAIN metadata.packages \ expanded)
    + OpenWork(stack)

\* some action's guard holds: a pending Err unwinds, an open loop takes its
\* next child or returns
CanStep ==
    \/ pc \in {"start", "root"}
    \/ /\ pc = "build"
       /\ stack # <<>>
       /\ Top.kind \in {"node", "virtual", "reverse"}

\* C1: every build ends: whatever the graph (cycles and self-loops included),
\* the options and the root kind, a build that has not reached its Result (a
\* tree or an error) can take a step, and every step strictly lowers WorkLeft,
\* a natural number: run returns after finitely many build_node steps.
C1_Terminates ==
    /\ [](Done \/ CanStep)
    /\ [](WorkLeft \in Nat /\ (Done => result.kind \in {"ok", "err"} /\ stack = <<>>))
    /\ [][WorkLeft' < WorkLeft]_vars

\* a finished build that expanded both ends of a two-package cycle, and one
\* that expanded a package depending on itself
C1_Witness ==
    /\ Done
    /\ \E a, b \in expanded :
          a # b /\ <<a, b>> \in GraphPairs /\ <<b, a>> \in GraphPairs
    /\ \E c \in expanded : <<c, c>> \in GraphPairs

(* C2 *)

\* C2: in a returned tree no package id occurs twice on a root-to-leaf path:
\* no node carries the id of one of its ancestors.
C2_NoRepeatOnPath ==
    Built => \A i \in 1..Len(Items) :
                IsPackage(Items[i].node) => Items[i].node.package_id \notin Range(Items[i].anc)

\* a returned tree with a node at depth >= 2 that has an edge back to one of its
\* ancestors, and a node with an edge to itself: both children were skipped
C2_Witness ==
    /\ Built
    /\ \E i \in 1..Len(Items) :
          /\ Items[i].depth >= 2
          /\ \E a \in Range(Items[i].anc) : <<Items[i].node.package_id, a>> \in GraphPairs
    /\ \E i \in 1..Len(Items) :
          <<Items[i].node.package_id, Items[i].node.package_id>> \in GraphPairs

(* C3 *)

NameSorted(ids) ==
    \A i \in 1..(Len(ids) - 1) : NameRank(ChildName(ids[i])) <= NameRank(ChildName(ids[i + 1]))

\* C3: with no depth limit and without duplicates_only, a package is expanded
\* exactly once: its first occurrence in the depth-first order of the
\* name-sorted tree has all its children in the graph that are not on the active
\* path, in name order, and every later occurrence is there but has no child.
C3_ExpandedOnce ==
    (Built /\ args.depth = NoneVal /\ ~args.duplicates) =>
        LET items == Items
        IN  \A i \in 1..Len(items) :
              IsPackage(items[i].node) =>
                LET id    == items[i].node.package_id
                    first == \A j \in 1..(i - 1) : items[j].node.package_id # id
                    kids  == ChildIds(items[i].node)
                    edges == GraphGet(graph, id)
                IN  IF first
                    THEN /\ Range(kids) = {edges[k].id : k \in 1..Len(edges)}
                                            \ (Range(items[i].anc) \cup {id})
                         /\ Cardinality(Range(kids)) = Len(kids)
                         /\ NameSorted(kids)
                    ELSE kids = <<>>

\* a tree in which a package occurs twice: expanded, with a child, where the
\* depth-first order meets it first, and childless at its other occurrence,
\* under a parent that sorts later
C3_Witness ==
    /\ Built /\ args.depth = NoneVal /\ ~args.duplicates
    /\ \E i, j \in 1..Len(Items) :
          /\ i < j
          /\ IsPackage(Items[i].node)
          /\ Items[i].node.package_id = Items[j].node.package_id
          /\ Items[i].node.dependencies # <<>>
          /\ Items[j].node.dependencies = <<>>

(* C6 *)

\* C6: with max_depth = k every package node at depth d >= k has no child, and
\* under a real root no node is deeper than k.
C6_DepthLimit ==
    (Built /\ args.depth # NoneVal) =>
        LET items == Items
            k     == args.depth[1]
        IN  /\ \A i \in 1..Len(items) :
                  (IsPackage(items[i].node) /\ items[i].depth >= k)
                      => items[i].node.dependencies = <<>>
            /\ IsPackage(result.root) => \A i \in 1..Len(items) : items[i].depth <= k

\* max_depth = 1 on a real root with two direct deps, each with a further child
\* in the graph that is not on its path
C6_Witness ==
    /\ Built /\ args.depth = Some(1) /\ IsPackage(result.root)
    /\ Len(result.root.dependencies) >= 2
    /\ \A i \in 1..Len(result.root.dependencies) :
          \E e \in GraphPairs :
              /\ e[1] = result.root.dependencies[i].package_id
              /\ e[2] \notin {e[1], result.root.package_id}

(* C7 *)

\* C7: with duplicates_only the root is always kept: a build that has a root to
\* start from (a real root, workspace members, or packages matching the invert
\* target) and meets no graph inconsistency returns a tree.
C7_RootAlwaysKept ==
    (/\ Done /\ args.duplicates
     /\ BuildStarts # {}
     /\ ~(result.kind = "err" /\ result.error.kind \in {"missing", "max_depth"}))
        => result.kind = "ok"

(* C8 *)

RECURSIVE LeadsToDuplicate(_)
LeadsToDuplicate(node) ==
    \/ node.duplicate
    \/ \E i \in 1..Len(node.dependencies) : LeadsToDuplicate(node.dependencies[i])

\* C8: with duplicates_only every node but the root is duplicate-flagged or has
\* a duplicate-flagged descendant in the tree; so every leaf but the root is
\* duplicate-flagged.
C8_OnlyDuplicateBranches ==
    (Built /\ args.duplicates) =>
        LET items == Items
        IN  \A i \in 2..Len(items) :
              /\ LeadsToDuplicate(items[i].node)
              /\ items[i].node.dependencies = <<>> => items[i].node.duplicate

\* a pruned tree: a node that is kept only for its duplicate descendant, and a
\* package that was expanded but is not in the tree
C8_Witness ==
    /\ Built /\ args.duplicates
    /\ \E i \in 2..Len(Items) : ~Items[i].node.duplicate
    /\ expanded \ TreeIds # {}

(* C9 *)

HasManyVersions(name) ==
    Cardinality({metadata.packages[i].version :
                    i \in {j \in DOMAIN metadata.packages : metadata.packages[j].name = name}}) > 1

\* C9: with duplicates_only and no depth limit no duplicate is lost: every
\* package with a duplicated name that the root(s) reach over the adjacency in
\* use is in the tree, and every parent-child link of the tree is an edge.
C9_NoDuplicateLost ==
    (Built /\ args.duplicates /\ args.depth = NoneVal) =>
        LET items == Items
        IN  /\ \A id \in Reach(BuildStarts, GraphPairs) \cap DOMAIN metadata.packages :
                  HasManyVersions(metadata.packages[id].name) => id \in TreeIds
            /\ \A i \in 2..Len(items) :
                  LET parent == items[i].anc[Len(items[i].anc)]
                  IN  parent # EmptyId => <<parent, items[i].node.package_id>> \in GraphPairs

\* a pruned tree that keeps a duplicate two edges below its root, while another
\* package the root reaches is gone
C9_Witness ==
    /\ Built /\ args.duplicates /\ args.depth = NoneVal
    /\ \E i \in 1..Len(Items) : Items[i].depth >= 2 /\ Items[i].node.duplicate
    /\ (Reach(BuildStarts, GraphPairs) \cap DOMAIN metadata.packages) \ TreeIds # {}

(* C10 *)

\* C10: the duplicate flag of every package node says whether its name has more
\* than one distinct version among ALL packages of the metadata, whatever the
\* options and whatever is rendered.
C10_DuplicateIsGlobal ==
    Built =>
        LET items == Items
        IN  \A i \in 1..Len(items) :
              IsPackage(items[i].node) =>
                  (items[i].node.duplicate <=> HasManyVersions(items[i].node.name))

\* a tree that shows one version of a duplicated name only, flagged all the same
C10_Witness ==
    /\ Built
    /\ \E i \in 1..Len(Items) :
          /\ Items[i].node.duplicate
          /\ \A j \in 1..Len(Items) :
                Items[j].node.name = Items[i].node.name
                    => Items[j].node.version = Items[i].node.version

(* C4 *)

Audited == pc = "audited"

AdjacencyPairs ==
    {e \in Ids \X Ids : /\ e[1] \in DOMAIN metadata.nodes
                         /\ e[2] \in Range(Adjacency(metadata)[e[1]])}

\* the packages at most k edges away from the roots
RECURSIVE Within(_)
Within(k) ==
    IF k = 0 THEN Range(Roots(metadata))
    ELSE Within(k - 1) \cup {e[2] : e \in {x \in AdjacencyPairs : x[1] \in Within(k - 1)}}

\* C4: a path that path_to returns is a real path with the fewest edges: it
\* starts at a root, ends at a package with the name and version asked for,
\* every step is an edge of the adjacency, no root is fewer edges away from
\* the target, and the names returned are the names along it; a target that is
\* a root gives a path of one element.
C4_ShortestRealPath ==
    (Audited /\ lookup # NoneVal) =>
        LET n == Len(path_ids)
            t == target_id[1]
        IN  /\ n >= 1
            /\ path_ids[1] \in Range(Roots(metadata))
            /\ path_ids[n] = t
            /\ metadata.packages[t].name = query[1].name
            /\ metadata.packages[t].version = query[1].version
            /\ \A i \in 1..(n - 1) : <<path_ids[i], path_ids[i + 1]>> \in AdjacencyPairs
            /\ t \in Within(n - 1)
            /\ n > 1 => t \notin Within(n - 2)
            /\ t \in Range(Roots(metadata)) => n = 1
            /\ lookup[1] = [i \in 1..n |-> metadata.packages[path_ids[i]].name]
            /\ reported = lookup[1]

\* two roots, the target one edge below the first and two edges below the
\* second: the path returned has two elements
C4_Witness ==
    /\ Audited /\ lookup # NoneVal
    /\ Len(Roots(metadata)) = 2
    /\ Len(path_ids) = 2
    /\ path_ids[1] = Roots(metadata)[1]
    /\ \E y \in Ids :
          /\ <<Roots(metadata)[2], y>> \in AdjacencyPairs
          /\ <<y, target_id[1]>> \in AdjacencyPairs
          /\ <<Roots(metadata)[2], target_id[1]>> \notin AdjacencyPairs

(* C5 *)

\* C5: the audit tells a target that is in the graph but that no root reaches
\* (NoPath) from a target that no package matches (NotFound): what it has after
\* the first, the returned value and the reported path, is not what it has
\* after the second, which is None and the bare package name.
C5_NegativesDistinct ==
    (Audited /\ target_id # NoneVal /\ ~found) =>
        <<lookup, reported>> # <<NoneVal, <<query[1].name>>>>

(* C11 *)

\* C11: the stats of every returned tree have total_crates >= direct_deps and
\* transitive_deps >= 0; what is more, transitive_deps is the number of
\* distinct packages of the tree that are neither the root nor its children.
C11_StatsBounds ==
    Built =>
        LET stats == result.stats
            kids  == Range(ChildIds(result.root))
        IN  /\ stats.total_crates >= stats.direct_deps
            /\ stats.transitive_deps >= 0
            /\ stats.total_crates = Cardinality(TreeIds)
            /\ stats.direct_deps = Len(result.root.dependencies)
            /\ stats.transitive_deps =
                 Cardinality(TreeIds \ (kids \cup {result.root.package_id}))

\* a tree of a real root with two direct deps and a package below them, and so
\* total_crates = 4, direct_deps = 2, transitive_deps = 1
C11_Witness ==
    /\ Built /\ IsPackage(result.root)
    /\ result.stats.direct_deps = 2
    /\ result.stats.total_crates = 4
    /\ result.stats.transitive_deps = 1

(* C12 *)

DefaultOptions ==
    args.depth = NoneVal /\ ~args.duplicates /\ ~args.no_dev

\* the build ended with the error of a package that the metadata lacks
MissingPackage == result.kind = "err" /\ result.error.kind = "missing"

\* C12: a virtual workspace with members M (one at least, all of them in the
\* metadata) and default options gives a tree whose root is the synthetic
\* "(workspace)" node without a package id, whose children are the members of M,
\* one child per member in the order of M; direct_deps = |M| and total_crates
\* counts the packages of the tree without the root.
C12_VirtualWorkspace ==
    (/\ Done /\ args.invert = NoneVal /\ metadata.root_package = NoneVal
     /\ DefaultOptions /\ metadata.workspace_members # <<>> /\ ~MissingPackage) =>
        /\ result.kind = "ok"
        /\ result.root.name = "(workspace)"
        /\ result.root.package_id = EmptyId
        /\ ChildIds(result.root) = metadata.workspace_members
        /\ result.stats.direct_deps = Len(metadata.workspace_members)
        /\ result.stats.total_crates = Cardinality(TreeIds)
        /\ result.stats.total_crates >= Cardinality(Range(metadata.workspace_members))

\* a workspace of two members, the first depending on the second: the second
\* is a child of the root and a child of the first member
C12_Witness ==
    /\ Built /\ args.invert = NoneVal /\ metadata.root_package = NoneVal /\ DefaultOptions
    /\ Len(result.root.dependencies) = 2
    /\ result.root.dependencies[2].package_id
          \in Range(ChildIds(result.root.dependencies[1]))

(* C13 *)

\* the invert target is the name of no package of the metadata
UnknownTarget ==
    /\ args.invert # NoneVal
    /\ \A id \in DOMAIN metadata.packages : metadata.packages[id].name # args.invert[1]

\* C13: with an invert target that names no package the build ends with the
\* error "no package named ..." and with nothing else: the result has no tree
\* and no stats, and build_node was never called, whatever the other options.
C13_UnknownInvertTarget ==
    (Done /\ UnknownTarget) =>
        /\ result.kind = "err"
        /\ result.error.kind = "no_such_package"
        /\ result.error.package = args.invert[1]
        /\ DOMAIN result = {"kind", "error"}
        /\ expanded = {} /\ stack = <<>>

\* an unknown target with a depth limit and duplicates_only, on a graph that
\* has edges
C13_Witness ==
    /\ Done /\ UnknownTarget
    /\ args.depth # NoneVal /\ args.duplicates
    /\ graph # <<>>
    /\ result.kind = "err"

(* C14 *)

\* the packages with the name of the invert target
TargetMatches ==
    IF args.invert = NoneVal THEN {}
    ELSE {id \in DOMAIN metadata.packages : metadata.packages[id].name = args.invert[1]}

\* the dependencies of the metadata that the options keep, as pairs
ForwardPairs ==
    {e \in Ids \X Ids :
        /\ e[1] \in DOMAIN metadata.nodes
        /\ \E i \in 1..Len(metadata.nodes[e[1]]) :
              /\ metadata.nodes[e[1]][i].pkg = e[2]
              /\ ~(args.no_dev /\ metadata.nodes[e[1]][i].dep_kinds \subseteq {"dev"})}

\* C14: an invert target that matches several packages gives the synthetic
\* root "reverse:<name>" without a package id and, with default options, one
\* child per matching package, each built at depth 1 on the inverted adjacency
\* (its children depend on it); a target that matches one package gives that
\* package as the root, built at depth 0.
C14_InvertedRoot ==
    /\ (args.invert # NoneVal /\ pc = "build") =>
          /\ \A i \in 1..Len(stack) : stack[i].depth = (IF i = 1 THEN 0 ELSE i - 1)
          /\ stack # <<>> => (stack[1].kind = "reverse" <=> Cardinality(TargetMatches) > 1)
          /\ \A i \in 2..Len(stack) : stack[i].kind = "node"
    /\ (Done /\ Cardinality(TargetMatches) > 1 /\ ~MissingPackage) =>
          /\ result.kind = "ok"
          /\ result.root.name = "reverse:" \o args.invert[1]
          /\ result.root.package_id = EmptyId
          /\ DefaultOptions =>
               /\ Range(ChildIds(result.root)) = TargetMatches
               /\ Len(result.root.dependencies) = Cardinality(TargetMatches)
               /\ \A i \in 1..Len(result.root.dependencies) :
                     LET child == result.root.dependencies[i]
                     IN  \A j \in 1..Len(child.dependencies) :
                            <<child.dependencies[j].package_id, child.package_id>>
                                \in ForwardPairs
    /\ (Done /\ Cardinality(TargetMatches) = 1 /\ ~MissingPackage) =>
          /\ result.kind = "ok"
          /\ result.root.package_id \in TargetMatches
          /\ result.root.name = args.invert[1]

\* a target with two versions: the labeled root has both as children, and a
\* dependent below one of them
C14_Witness ==
    /\ Built /\ DefaultOptions
    /\ Cardinality(TargetMatches) = 2
    /\ Len(result.root.dependencies) = 2
    /\ \E i \in 1..2 : result.root.dependencies[i].dependencies # <<>>

(* C15 *)

\* C15: in an inverted tree built with default options, the children of the
\* first occurrence of every package N are the packages with a forward edge to
\* N that are not on the active path, each one once, and every package that
\* depends on a matching package, directly or not, is in the tree.
C15_InvertedChildren ==
    (Built /\ args.invert # NoneVal /\ DefaultOptions) =>
        LET items == Items
        IN  /\ \A i \in 1..Len(items) :
                  LET id == items[i].node.package_id
                  IN  (IsPackage(items[i].node)
                        /\ \A j \in 1..(i - 1) : items[j].node.package_id # id) =>
                          /\ Range(ChildIds(items[i].node)) =
                                {e[1] : e \in {x \in ForwardPairs : x[2] = id}}
                                    \ (Range(items[i].anc) \cup {id})
                          /\ Cardinality(Range(ChildIds(items[i].node)))
                                = Len(items[i].node.dependencies)
            /\ Reach(TargetMatches, {<<e[2], e[1]>> : e \in ForwardPairs})
                  \cap DOMAIN metadata.packages \subseteq TreeIds

\* an inverted tree rooted at one package X, with a package that depends on X
\* through another one, and a dependent of X that X depends on in turn
C15_Witness ==
    /\ Built /\ args.invert # NoneVal /\ DefaultOptions
    /\ Cardinality(TargetMatches) = 1
    /\ \E i \in 1..Len(Items) : Items[i].depth = 2
    /\ \E e \in ForwardPairs :
          e[1] = result.root.package_id /\ e[2] # e[1] /\ <<e[2], e[1]>> \in ForwardPairs

(* C16 *)

\* two adjacencies with the same keys and, at every key, the same edges with
\* the same annotations, each edge as often in the one as in the other
SameEdges(g, h) ==
    /\ DOMAIN g = DOMAIN h
    /\ \A k \in DOMAIN g :
          \A e \in Range(g[k]) \cup Range(h[k]) :
              Cardinality({i \in 1..Len(g[k]) : g[k][i] = e})
                  = Cardinality({i \in 1..Len(h[k]) : h[k][i] = e})

\* C16: invert_graph applied twice to a forward adjacency gives back its keys
\* and, at every key, its edges with their is_dev / is_build annotations;
\* applied once, it gives the reversed edges with the annotations kept.
C16_InvertTwice ==
    LET forward_graph == ForwardGraph(metadata, args.no_dev)
    IN  /\ pc = "invert:2" => SameEdges(graph, forward_graph)
        /\ pc = "invert:1" =>
              \A from \in Ids, to \in Ids, d \in BOOLEAN, b \in BOOLEAN :
                  ([id |-> to, is_dev |-> d, is_build |-> b]
                        \in Range(GraphGet(forward_graph, from)))
                    <=> ([id |-> from, is_dev |-> d, is_build |-> b]
                        \in Range(GraphGet(graph, to)))

\* an adjacency inverted twice that has a dev edge and a build edge and lists
\* the edges of some key in another order than the forward adjacency did
C16_Witness ==
    /\ pc = "invert:2"
    /\ \E k \in DOMAIN graph : \E i \in 1..Len(graph[k]) : graph[k][i].is_dev
    /\ \E k \in DOMAIN graph : \E i \in 1..Len(graph[k]) : graph[k][i].is_build
    /\ graph # ForwardGraph(metadata, args.no_dev)

(* C17 *)

\* the kind tags of the dependency from -> to of the metadata, {} without one
TagsOf(from, to) ==
    IF from \notin DOMAIN metadata.nodes THEN {}
    ELSE UNION {metadata.nodes[from][i].dep_kinds :
                    i \in {j \in 1..Len(metadata.nodes[from]) :
                              metadata.nodes[from][j].pkg = to}}

\* the adjacency in use has the edge from -> to of the forward graph
HasForwardEdge(from, to) ==
    IF args.invert = NoneVal THEN <<from, to>> \in GraphPairs ELSE <<to, from>> \in GraphPairs

\* what a build with --no-dev may show: the packages that the root(s) reach
\* over dependencies with a tag in `keeping`
ReachKeeping(keeping) ==
    LET pairs == {e \in Ids \X Ids : TagsOf(e[1], e[2]) \cap keeping # {}}
    IN  Reach(BuildStarts,
              IF args.invert = NoneVal THEN pairs ELSE {<<e[2], e[1]>> : e \in pairs})

\* C17, as the code has it: with --no-dev a dependency is an edge of the
\* adjacency (forward, or inverted afterwards) iff one of its kind tags is not
\* dev, that is normal, build or unknown; so no package that is reached through
\* dev-only dependencies alone is in the tree, and a dependency tagged normal
\* and dev is kept.
C17_NoDevFilter ==
    (pc # "start" /\ args.no_dev) =>
        /\ \A from \in Ids, to \in Ids :
              HasForwardEdge(from, to) <=> TagsOf(from, to) \ {"dev"} # {}
        /\ Built => TreeIds \subseteq ReachKeeping(KindTags \ {"dev"})

\* C17, as stated: with --no-dev a dependency is an edge of the adjacency iff
\* one of its kind tags is normal or build.
C17_NormalOrBuildOnly ==
    (pc # "start" /\ args.no_dev) =>
        \A from \in Ids, to \in Ids :
            HasForwardEdge(from, to) <=> TagsOf(from, to) \cap {"normal", "build"} # {}

\* a --no-dev tree of the root 1: its dependency on 2 is tagged normal and dev
\* and 2 is in the tree, its dependency on 3 is dev-only and 3 is not
C17_Witness ==
    /\ Built /\ args.no_dev /\ args.invert = NoneVal
    /\ TagsOf(1, 2) = {"normal", "dev"}
    /\ TagsOf(1, 3) = {"dev"}
    /\ TagsOf(2, 3) = {}
    /\ TreeIds = {1, 2}

(* C18 *)

\* C18: the root and the children of a synthetic root have is_dev = is_build =
\* FALSE; every other node has the flags of the dependency between its parent
\* and itself (from the parent in a forward tree, to the parent in an inverted
\* one): is_dev iff one of its kind tags is dev, is_build iff one is build.
C18_FlagsOfTheEdge ==
    Built =>
        LET items == Items
        IN  \A i \in 1..Len(items) :
              LET node   == items[i].node
                  parent == IF items[i].anc = <<>> THEN EmptyId
                            ELSE items[i].anc[Len(items[i].anc)]
                  tags   == IF args.invert = NoneVal
                            THEN TagsOf(parent, node.package_id)
                            ELSE TagsOf(node.package_id, parent)
              IN  IF parent = EmptyId
                  THEN ~node.is_dev /\ ~node.is_build
                  ELSE /\ node.is_dev <=> "dev" \in tags
                       /\ node.is_build <=> "build" \in tags

\* a tree that has one package at two places, as a dev dependency at the one
\* and not at the other, and a build dependency somewhere
C18_Witness ==
    /\ Built
    /\ \E i, j \in 1..Len(Items) :
          /\ Items[i].node.package_id = Items[j].node.package_id
          /\ Items[i].node.is_dev /\ ~Items[j].node.is_dev
    /\ \E i \in 1..Len(Items) : Items[i].node.is_build

(* C19 *)

\* C19: in every returned tree, whatever the options and the mode, the
\* children of every package node are in non-decreasing order of their names.
C19_ChildrenSorted ==
    Built =>
        LET items == Items
        IN  \A i \in 1..Len(items) :
              IsPackage(items[i].node) =>
                  \A j \in 1..(Len(items[i].node.dependencies) - 1) :
                      NameRank(items[i].node.dependencies[j].name)
                          <= NameRank(items[i].node.dependencies[j + 1].name)

\* a tree with a package node whose two children are in name order, while the
\* adjacency lists them the other way round
C19_Witness ==
    /\ Built
    /\ \E i \in 1..Len(Items) :
          LET node == Items[i].node
          IN  /\ IsPackage(node)
              /\ Len(node.dependencies) = 2
              /\ Len(GraphGet(graph, node.package_id)) = 2
              /\ node.dependencies[1].package_id = graph[node.package_id][2].id
              /\ node.dependencies[2].package_id = graph[node.package_id][1].id
              /\ node.dependencies[1].name # node.dependencies[2].name

(* C20 *)

\* C20: the output is deterministic: a second run of the command on the same
\* metadata with the same options ends with the result of the first, the same
\* tree child for child, in every mode.
C20_Deterministic ==
    (Done /\ previous # NoneVal) => result = previous[1]

(* The crates.io client: CratesIoClient::fetch_latest_versions *)

\* lines 139-149: the version to recommend
Selected(payload, allow_prerelease) ==
    IF allow_prerelease
    THEN IF payload.max_version # NoneVal THEN payload.max_version
         ELSE payload.max_stable_version
    ELSE IF payload.max_stable_version # NoneVal THEN payload.max_stable_version
         ELSE payload.max_version

\* lines 135-155: the VersionInfo made of a payload
VersionInfo(name, payload, allow_prerelease) ==
    [name          |-> name,
     latest        |-> Selected(payload, allow_prerelease),
     latest_stable |-> payload.max_stable_version]

\* HashMap::get
cache_get(map, name) == IF name \in DOMAIN map THEN Some(map[name]) ELSE NoneVal

\* HashMap::insert
Insert(map, name, info) == (name :> info) @@ map

\* a loop that sends its request without looking at the cache again
RecheckSkipped(map, name) == NoneVal

\* lines 81-87: the cache, looked at again under the permit
Recheck(map, name) == cache_get(map, name)

\* lines 64-73: the names that the cache has not, in the order of `names`
RECURSIVE Pending(_, _)
Pending(names, map) ==
    IF names = <<>> THEN <<>>
    ELSE IF Head(names) \in DOMAIN map THEN Pending(Tail(names), map)
    ELSE <<Head(names)>> \o Pending(Tail(names), map)

\* lines 64-73: the results taken from the cache
Cached(names, map) == [n \in Range(names) \cap DOMAIN map |-> map[n]]

\* the end of one iteration of `for name in pending`, `continue` included, and
\* after the last one line 95
NextName(call) ==
    [call EXCEPT !.pending = Tail(call.pending),
                 !.pc = IF Tail(call.pending) = <<>> THEN "ok" ELSE "acquire"]

\* lines 61-73, under the cache lock
Scan ==
    \E c \in DOMAIN calls :
        /\ calls[c].pc = "scan"
        /\ LET pending == Pending(calls[c].names, cache)
           IN  calls' = [calls EXCEPT ![c].results = Cached(calls[c].names, cache),
                                      ![c].pending = pending,
                                      ![c].pc = IF pending = <<>> THEN "ok" ELSE "acquire"]
        /\ UNCHANGED <<registry, cache, limiter, requests>>
        /\ UNCHANGED <<metadata, pc, treevars, pathvars>>

\* line 77: self.limiter.acquire().await
Acquire ==
    \E c \in DOMAIN calls :
        /\ calls[c].pc = "acquire"
        /\ limiter > 0
        /\ limiter' = limiter - 1
        /\ calls' = [calls EXCEPT ![c].pc = "recheck"]
        /\ UNCHANGED <<registry, cache, requests>>
        /\ UNCHANGED <<metadata, pc, treevars, pathvars>>

\* lines 81-87, under the cache lock; on a hit the permit is dropped by `continue`
RecheckCache ==
    \E c \in DOMAIN calls :
        /\ calls[c].pc = "recheck"
        /\ LET name == Head(calls[c].pending)
               info == Recheck(cache, name)
           IN  IF info # NoneVal
               THEN /\ calls' = [calls EXCEPT
                                   ![c] = NextName([calls[c] EXCEPT
                                              !.results = Insert(calls[c].results, name, info[1])])]
                    /\ limiter' = limiter + 1
               ELSE /\ calls' = [calls EXCEPT ![c].pc = "fetch"]
                    /\ UNCHANGED limiter
        /\ UNCHANGED <<registry, cache, requests>>
        /\ UNCHANGED <<metadata, pc, treevars, pathvars>>

\* lines 89 and 99-156: the request is sent and answered with the payload of
\* the crate
FetchOk ==
    \E c \in DOMAIN calls :
        /\ calls[c].pc = "fetch"
        /\ LET name == Head(calls[c].pending)
           IN  /\ requests' = [requests EXCEPT
                                  ![name].sent = @ + 1,
                                  ![name].succeeded = @ + 1,
                                  ![name].late = @ + (IF requests[name].succeeded > 0 THEN 1 ELSE 0)]
               /\ calls' = [calls EXCEPT
                               ![c].info = Some(VersionInfo(name, registry[name],
                                                            calls[c].allow_prerelease)),
                               ![c].pc = "insert"]
        /\ UNCHANGED <<registry, cache, limiter>>
        /\ UNCHANGED <<metadata, pc, treevars, pathvars>>

\* lines 89 and 109-133: the request is sent and fails; `?` returns the error
\* and drops the permit
FetchErr ==
    \E c \in DOMAIN calls :
        /\ calls[c].pc = "fetch"
        /\ LET name == Head(calls[c].pending)
           IN  requests' = [requests EXCEPT
                               ![name].sent = @ + 1,
                               ![name].late = @ + (IF requests[name].succeeded > 0 THEN 1 ELSE 0)]
        /\ calls' = [calls EXCEPT ![c].pc = "err"]
        /\ limiter' = limiter + 1
        /\ UNCHANGED <<registry, cache>>
        /\ UNCHANGED <<metadata, pc, treevars, pathvars>>

\* lines 90-93: the result and the cache entry; the permit is dropped at the
\* end of the iteration
CacheInsert ==
    \E c \in DOMAIN calls :
        /\ calls[c].pc = "insert"
        /\ LET name == Head(calls[c].pending)
               info == calls[c].info[1]
           IN  /\ cache' = Insert(cache, name, info)
               /\ calls' = [calls EXCEPT
                               ![c] = NextName([calls[c] EXCEPT
                                          !.results = Insert(calls[c].results, name, info),
                                          !.info = NoneVal])]
        /\ limiter' = limiter + 1
        /\ UNCHANGED <<registry, requests>>
        /\ UNCHANGED <<metadata, pc, treevars, pathvars>>

CrateNames == {"serde", "tokio"}

\* the `names` of a call: one crate, two crates, one crate twice
NameLists == {<<"serde">>, <<"serde", "tokio">>, <<"tokio", "serde">>, <<"serde", "serde">>}

\* what the API has for a crate: a prerelease above the stable version, a
\* stable version alone, prereleases only
Payloads ==
    {[max_version |-> Some("2.0.0-rc.1"), max_stable_version |-> Some("1.0.0")],
     [max_version |-> Some("1.0.0"),      max_stable_version |-> Some("1.0.0")],
     [max_version |-> Some("0.1.0-alpha"), max_stable_version |-> NoneVal]}

\* CratesIoClient::new, lines 30-41, and the calls made on the client
CratesInit ==
    /\ registry \in [CrateNames -> Payloads]
    /\ cache = <<>>
    /\ limiter = 1
    /\ calls \in [1..NumCalls ->
                    {[names |-> n, allow_prerelease |-> a, pc |-> "scan", results |-> <<>>,
                      pending |-> <<>>, info |-> NoneVal] :
                        n \in NameLists, a \in BOOLEAN}]
    /\ requests = [n \in CrateNames |-> [sent |-> 0, succeeded |-> 0, late |-> 0]]
    /\ pc = "crates"
    /\ metadata = <<>>
    /\ args = [depth |-> NoneVal, duplicates |-> FALSE, no_dev |-> FALSE, invert |-> NoneVal]
    /\ graph = <<>> /\ duplicate_names = {} /\ expanded = {} /\ path = {}
    /\ stack = <<>> /\ err = NoneVal /\ result = NoResult
    /\ PathIdle
    /\ previous = NoneVal

CratesNext ==
    \/ Scan
    \/ Acquire
    \/ RecheckCache
    \/ FetchOk
    \/ FetchErr
    \/ CacheInsert

CratesSpec == CratesInit /\ [][CratesNext]_vars

(* Depth-limited builds over graphs deep enough for the limit to cut *)

\* one package more than the other builds have
LimitIds == 1..(NumPkgs + 1)

\* the edges i -> j to the next two packages
LimitEdges == {e \in LimitIds \X LimitIds : e[2] - e[1] \in {1, 2}}

LimitInit ==
    /\ \E E \in SUBSET LimitEdges, k \in 1..(MaxDepthArg + 1) :
          /\ metadata = [packages          |-> [i \in LimitIds |->
                                                   [name |-> AllNames[i], version |-> "0.1.0",
                                                    source |-> NoneVal]],
                         nodes             |-> [n \in LimitIds |->
                                                   DepsDescending(E, n, NumPkgs + 1)],
                         root_package      |-> Some(1),
                         workspace_members |-> <<1>>]
          /\ args = [depth |-> Some(k), duplicates |-> FALSE, no_dev |-> FALSE,
                     invert |-> NoneVal]
    /\ pc = "start"
    /\ graph = <<>> /\ duplicate_names = {} /\ expanded = {} /\ path = {}
    /\ stack = <<>> /\ err = NoneVal /\ result = NoResult
    /\ PathIdle
    /\ previous = NoneVal
    /\ CratesIdle

LimitNext ==
    \/ Load
    \/ SelectRoot
    \/ BuildNodeChild
    \/ BuildNodeReturn

LimitSpec == LimitInit /\ [][LimitNext]_vars

(* C21 *)

\* the depth at which a build over a chain calls build_node for package i
StartDepth == IF metadata.root_package # NoneVal THEN 0 ELSE 1
ChainDepth(i) == i - 1 + StartDepth

\* the build has no depth limit below the ceiling
NoLimitBelowCeiling == args.depth = NoneVal \/ args.depth[1] > MAX_TREE_DEPTH

\* C21: a build over a chain that reaches a package deeper than MAX_TREE_DEPTH,
\* with max_depth unset or set beyond the ceiling, ends with the ceiling error
\* that names the first such package and with no tree; a build that reaches no
\* such package does not end with that error.
C21_CeilingIsFatal ==
    Done =>
        LET n    == Cardinality(DOMAIN metadata.packages)
            over == {i \in 1..n : ChainDepth(i) > MAX_TREE_DEPTH}
        IN  /\ (over # {} /\ NoLimitBelowCeiling) =>
                  /\ result.kind = "err"
                  /\ result.error.kind = "max_depth"
                  /\ \E i \in over :
                        /\ \A j \in over : i <= j
                        /\ result.error.package = metadata.packages[i].name
                  /\ DOMAIN result = {"kind", "error"}
            /\ (over = {} \/ ~NoLimitBelowCeiling) =>
                  ~(result.kind = "err" /\ result.error.kind = "max_depth")

\* a build with max_depth set beyond the ceiling that failed at the package
\* one edge below the ceiling
C21_Witness ==
    /\ Done /\ args.depth # NoneVal
    /\ result.kind = "err" /\ result.error.kind = "max_depth"
    /\ result.error.package = "p" \o ToString(MAX_TREE_DEPTH + 2)

(* C22 *)

\* the packages of the metadata that the traversal reaches over the adjacency
\* in use
ReachedPackages == Reach(BuildStarts, GraphPairs) \cap DOMAIN metadata.packages

\* the edges from a reached package to an id that the metadata has no package for
DanglingEdges ==
    {e \in GraphPairs : e[1] \in ReachedPackages /\ e[2] \notin DOMAIN metadata.packages}

\* C22: with max_depth unset, a build that starts at packages of the metadata
\* and reaches a package with an edge to an id that the metadata has no
\* package for ends with the error "package <id> missing from metadata" for
\* such an id, and with nothing else: no tree and no stats, whatever
\* duplicates_only and no_dev are.
C22_MissingNodeFatal ==
    (/\ Done /\ args.depth = NoneVal /\ DanglingEdges # {}
     /\ BuildStarts \subseteq DOMAIN metadata.packages) =>
        /\ MissingPackage
        /\ result.error.id \in {e[2] : e \in DanglingEdges}
        /\ DOMAIN result = {"kind", "error"}

\* the failed build of a graph whose dangling edge leaves a package below the
\* root, when the root has other dependencies as well
C22_Witness ==
    /\ Done /\ args.depth = NoneVal /\ MissingPackage
    /\ \A e \in DanglingEdges : e[1] \notin BuildStarts
    /\ \E e \in GraphPairs : e[1] \in BuildStarts /\ e[2] \notin BuildStarts
    /\ Cardinality(ReachedPackages) >= 3

(* C23 *)

\* C23: once path_to has looked its target up, the target is a package with
\* the name, the version and the source asked for if there is one; otherwise
\* the package with that name and version and no source if there is one;
\* otherwise some package with that name and version, whatever its source;
\* and only when no package has that name and version is there no target, and
\* the audit reports the name alone.
C23_LookupOrder ==
    pc # "lookup" =>
        LET q     == query[1]
            same  == {i \in DOMAIN metadata.packages :
                        /\ metadata.packages[i].name = q.name
                        /\ metadata.packages[i].version = q.version}
            exact == {i \in same : metadata.packages[i].source = q.source}
            plain == {i \in same : metadata.packages[i].source = NoneVal}
        IN  /\ same # {} => target_id # NoneVal
            /\ exact # {} => target_id[1] \in exact
            /\ (exact = {} /\ plain # {}) => target_id[1] \in plain
            /\ (exact = {} /\ plain = {} /\ same # {}) => target_id[1] \in same
            /\ same = {} => /\ target_id = NoneVal
                            /\ Audited => reported = <<q.name>>

\* a source hint that no package has, for a name and version that one package
\* has without a source and another from the registry: the one without a
\* source was taken
C23_Witness ==
    /\ Audited /\ query[1].source = Some("path")
    /\ target_id # NoneVal
    /\ metadata.packages[target_id[1]].source = NoneVal
    /\ \E i \in DOMAIN metadata.packages :
          /\ Key(metadata.packages[i]) =
                [Key(metadata.packages[target_id[1]]) EXCEPT !.source = Some("registry")]

(* C24 *)

\* the first position of x in the sequence s
FirstIndex(s, x) == CHOOSE i \in 1..Len(s) : s[i] = x /\ \A j \in 1..(i - 1) : s[j] # x

\* the paths of `len` packages from a root to the target, over the adjacency
PathsTo(target, len) ==
    {p \in [1..len -> DOMAIN metadata.packages] :
        /\ p[1] \in Range(Roots(metadata))
        /\ p[len] = target
        /\ \A k \in 1..(len - 1) : <<p[k], p[k + 1]>> \in AdjacencyPairs}

\* a path as positions: of its root in the root list, then of each of its edges
\* in the edge list of the package the edge leaves
Positions(p) ==
    [k \in 1..Len(p) |->
        IF k = 1 THEN FirstIndex(Roots(metadata), p[1])
        ELSE FirstIndex(Adjacency(metadata)[p[k - 1]], p[k])]

\* a and b have one length, and a comes before b in the lexicographic order
LexLess(a, b) ==
    \E k \in 1..Len(a) : a[k] < b[k] /\ \A j \in 1..(k - 1) : a[j] = b[j]

\* C24: the path that path_to returns is, among the paths to its target with
\* the fewest edges, the one that comes first in the lexicographic order of
\* (position of the root in the root list, position of each edge in the edge
\* list of its source).
C24_TieBreak ==
    (Audited /\ found) =>
        \A p \in PathsTo(target_id[1], Len(path_ids)) :
            p # path_ids => LexLess(Positions(path_ids), Positions(p))

\* a path that was returned although another path of the same length starts at
\* the same root
C24_Witness ==
    /\ Audited /\ found /\ Len(path_ids) >= 3
    /\ \E p \in PathsTo(target_id[1], Len(path_ids)) : p # path_ids /\ p[1] = path_ids[1]

(* C25 *)

\* C25: in every interleaving of the calls on one client no request for a crate
\* is sent after a request for it has succeeded, so at most one request per
\* crate succeeds; and a call that returns Ok has, for each of its names, the
\* VersionInfo that the cache holds.
C25_RequestedOnce ==
    /\ \A n \in DOMAIN requests :
          /\ requests[n].late = 0
          /\ requests[n].succeeded <= 1
          /\ n \in DOMAIN cache => requests[n].succeeded = 1
    /\ \A c \in DOMAIN calls :
          calls[c].pc = "ok" =>
              \A n \in Range(calls[c].names) :
                  /\ n \in DOMAIN calls[c].results
                  /\ n \in DOMAIN cache
                  /\ calls[c].results[n] = cache[n]

\* a call that found a crate missing from the cache, waited for the permit and
\* now holds it, while another call has fetched the crate and returned
C25_Witness ==
    \E c, d \in DOMAIN calls :
        /\ calls[c].pc = "recheck"
        /\ Head(calls[c].pending) \in DOMAIN cache
        /\ calls[d].pc = "ok"
        /\ requests[Head(calls[c].pending)].sent = 1

(* C26 *)

\* C26: every call that returns Ok has, for each of its names, latest =
\* max_version (or max_stable_version without one) when its allow_prerelease is
\* true, and latest = max_stable_version (or max_version without one) when it
\* is false.
C26_LatestHonoursFlag ==
    \A c \in DOMAIN calls :
        calls[c].pc = "ok" =>
            \A n \in Range(calls[c].names) :
                calls[c].results[n].latest = Selected(registry[n], calls[c].allow_prerelease)

(* C27 *)

\* C27: with max_depth unset and duplicates_only false, the packages of a
\* returned tree are exactly the packages that the start packages reach over
\* the adjacency in use, and total_crates is their number.
C27_AllReachable ==
    (Built /\ args.depth = NoneVal /\ ~args.duplicates) =>
        /\ TreeIds = Reach(BuildStarts, GraphPairs)
        /\ result.stats.total_crates = Cardinality(Reach(BuildStarts, GraphPairs))

\* a tree over a graph with a cycle in which one package is listed at two
\* places and has dependencies of its own
C27_Witness ==
    /\ Built /\ args.depth = NoneVal /\ ~args.duplicates
    /\ \E e \in GraphPairs : e[1] # e[2] /\ <<e[2], e[1]>> \in GraphPairs
    /\ \E i, j \in 1..Len(Items) :
          /\ i < j
          /\ Items[i].node.package_id = Items[j].node.package_id
          /\ Items[i].node.dependencies # <<>>
          /\ Items[j].node.dependencies = <<>>
    /\ Cardinality(TreeIds) >= 4

(* C28 *)

\* the packages at most k edges away from the start packages over the
\* adjacency in use
RECURSIVE NearRoot(_)
NearRoot(k) ==
    IF k = 0 THEN BuildStarts
    ELSE NearRoot(k - 1) \cup {e[2] : e \in {x \in GraphPairs : x[1] \in NearRoot(k - 1)}}

\* C28: with max_depth = k and duplicates_only false, every package at most k
\* edges away from the real root is in the returned tree.
C28_NearPackagesShown ==
    (/\ Built /\ args.depth # NoneVal /\ ~args.duplicates
     /\ args.invert = NoneVal /\ metadata.root_package # NoneVal) =>
        NearRoot(args.depth[1]) \subseteq TreeIds

(* C29 *)

\* no package of the adjacency in use has two edges to one package
OneEdgePerPair ==
    \A n \in DOMAIN graph :
        \A i, j \in 1..Len(graph[n]) : graph[n][i].id = graph[n][j].id => i = j

\* C29: in every returned tree of a graph with at most one edge per pair of
\* packages, the children of the root are pairwise different packages and none
\* of them is the root, total_crates >= direct_deps + r and transitive_deps =
\* total_crates - direct_deps - r, where r is 1 for a root that is a package
\* and 0 otherwise.
C29_SubtractionExact ==
    (Built /\ OneEdgePerPair) =>
        LET stats == result.stats
            kids  == ChildIds(result.root)
            r     == IF IsPackage(result.root) THEN 1 ELSE 0
        IN  /\ \A i, j \in 1..Len(kids) : kids[i] = kids[j] => i = j
            /\ \A i \in 1..Len(kids) : kids[i] # result.root.package_id
            /\ stats.total_crates >= stats.direct_deps + r
            /\ stats.transitive_deps = stats.total_crates - stats.direct_deps - r

\* the tree of a real root that depends on itself and on two other packages,
\* all of the tree being the root and its children
C29_Witness ==
    /\ Built /\ IsPackage(result.root)
    /\ <<result.root.package_id, result.root.package_id>> \in GraphPairs
    /\ result.stats.direct_deps = 2
    /\ result.stats.total_crates = result.stats.direct_deps + 1
    /\ result.stats.transitive_deps = 0

(* C30 *)

\* the frames of the build_node calls that are in their child loop
NodeFrames == {i \in 1..Len(stack) : stack[i].kind = "node"}

\* the depth of the outermost build_node call: 0 for a real root, 1 below a
\* synthetic root
FirstDepth == IF stack # <<>> /\ stack[1].kind # "node" THEN 1 ELSE 0

\* the ceiling error, on its way up or returned
CeilingError ==
    \/ err # NoneVal /\ err[1].kind = "max_depth"
    \/ result.kind = "err" /\ result.error.kind = "max_depth"

\* C30: whenever build_node is entered or left, the active path holds exactly
\* the ids of the calls that are being expanded, which are pairwise different
\* and one level apart from FirstDepth on, so that a call at depth d is entered
\* with d - FirstDepth ids on the path; a call that returns, with a node or
\* with an error, leaves the path as it found it, and the path is empty when
\* the build is over; and with at most MAX_TREE_DEPTH packages in the metadata
\* the ceiling error is never raised.
C30_PathIsTheCallChain ==
    /\ path = {stack[i].id : i \in NodeFrames}
    /\ Cardinality(path) = Cardinality(NodeFrames)
    /\ NodeFrames = (FirstDepth + 1)..Len(stack)
    /\ \A i \in NodeFrames : stack[i].depth = i - 1
    /\ Done => path = {}
    /\ (pc \in {"build", "done"} /\ Cardinality(DOMAIN metadata.packages) <= MAX_TREE_DEPTH)
          => ~CeilingError

\* the deepest point of a build over a closed chain of MAX_TREE_DEPTH packages
\* below a synthetic root: a call at depth MAX_TREE_DEPTH is being expanded
C30_Witness ==
    /\ pc = "build" /\ err = NoneVal
    /\ Cardinality(DOMAIN metadata.packages) = MAX_TREE_DEPTH
    /\ FirstDepth = 1
    /\ Cardinality(path) = MAX_TREE_DEPTH
    /\ Top.depth = MAX_TREE_DEPTH
    /\ Top.children # <<>>

====
